---- MODULE Spec2Model ----
(***************************************************************************)
(* Model of src/services/auth.py: the Auth service that issues and         *)
(* validates access, refresh and email-verification JWTs.                  *)
(*                                                                         *)
(* Time is counted in whole seconds since the epoch, the resolution at     *)
(* which python-jose serialises the "iat" and "exp" datetimes (timegm).    *)
(* A token is the pair of its payload and of the key its signature was     *)
(* computed with: an HS256 signature verifies exactly under that key.      *)
(***************************************************************************)
EXTENDS Integers, FiniteSets, TLC

VARIABLES
    now,      \* the wall clock read by datetime.utcnow(), in seconds
    users,    \* emails for which get_user_by_email finds a user
    latest,   \* the token put in circulation last, with the call that made it
    older,    \* a token put in circulation before, still held by a client
    ticks,    \* number of clock advances so far
    result    \* the latest call of an Auth method and its outcome

vars == <<now, users, latest, older, ticks, result>>

----------------------------------------------------------------------------
(* Bounds of the model *)

MaxTicks == 2

----------------------------------------------------------------------------
(* Class attributes of Auth *)

SECRET_KEY == "e26cd3c889b41f4ffc33b2306ae18a87eba234f283ffa7095ee18e8d9c6ed2f6"
ALGORITHM == "HS256"
OTHER_KEY == "a key that is not SECRET_KEY"

AccessDefault == 15 * 60
RefreshDefault == 7 * 24 * 60 * 60
EmailDefault == 7 * 24 * 60 * 60

----------------------------------------------------------------------------
(* Python values *)

Str(s) == [type |-> "str", val |-> s]
None == [type |-> "NoneType", val |-> ""]

EmptyDict == [k \in {} |-> None]

\* dict.update: the keys of e override those of d
dict_update(d, e) == e @@ d

\* Optional[float] argument: not passed (None) or a number of seconds
NoDelta == [given |-> FALSE, seconds |-> 0]
Seconds(n) == [given |-> TRUE, seconds |-> n]

\* truth value of `if expires_delta:` : None and 0 are false
Truthy(expires_delta) == expires_delta.given /\ expires_delta.seconds # 0

----------------------------------------------------------------------------
(* Inputs *)

Emails == {"a@x.com", "b@x.com"}

Datas ==
    { EmptyDict, [sub |-> None] } \cup { [sub |-> Str(e)] : e \in Emails }

Deltas == { NoDelta, Seconds(-1), Seconds(0), Seconds(1) }

\* the (data, expires_delta) arguments of create_access_token
AccessArguments ==
    { <<data, NoDelta>> : data \in Datas }
    \cup { <<[sub |-> Str("a@x.com")], expires_delta>> :
              expires_delta \in Deltas }

\* the (data, expires_delta) arguments of create_refresh_token
RefreshArguments ==
    { <<EmptyDict, NoDelta>> }
    \cup { <<[sub |-> Str("a@x.com")], expires_delta>> :
              expires_delta \in Deltas }

\* the data argument of create_email_token
EmailDatas ==
    { EmptyDict, [sub |-> Str("a@x.com")],
      [sub |-> Str("a@x.com"), scope |-> "access_token"] }

Jumps == { 1, RefreshDefault }

----------------------------------------------------------------------------
(* python-jose *)

\* jwt.encode(claims, key, algorithm): the payload signed with key
jwt_encode(claims, key) == [payload |-> claims, key |-> key]

JWTError == [ok |-> FALSE, payload |-> EmptyDict]

\* jwt.decode that already rejects a token in the second it expires
jwt_decode_early(token, key) ==
    IF token.key # key THEN JWTError
    ELSE IF "exp" \in DOMAIN token.payload /\ token.payload["exp"] <= now
    THEN JWTError
    ELSE IF "sub" \in DOMAIN token.payload
            /\ token.payload["sub"].type # "str"
    THEN JWTError
    ELSE [ok |-> TRUE, payload |-> token.payload]

\* jwt.decode that accepts only the token issued last
jwt_decode_latest_only(token, key) ==
    IF token.key # key \/ token # latest.jwt THEN JWTError
    ELSE IF "exp" \in DOMAIN token.payload /\ token.payload["exp"] < now
    THEN JWTError
    ELSE IF "sub" \in DOMAIN token.payload
            /\ token.payload["sub"].type # "str"
    THEN JWTError
    ELSE [ok |-> TRUE, payload |-> token.payload]

\* jwt.decode(token, key, algorithms): the signature must verify under key,
\* exp must not lie before the current time, sub if present must be a string
jwt_decode(token, key) ==
    IF token.key # key THEN JWTError
    ELSE IF "exp" \in DOMAIN token.payload /\ token.payload["exp"] < now
    THEN JWTError
    ELSE IF "sub" \in DOMAIN token.payload
            /\ token.payload["sub"].type # "str"
    THEN JWTError
    ELSE [ok |-> TRUE, payload |-> token.payload]

----------------------------------------------------------------------------
(* Outcomes of a call *)

HTTP_401_UNAUTHORIZED == 401
HTTP_422_UNPROCESSABLE_ENTITY == 422

User(email) == [type |-> "User", val |-> email]

Return(v) ==
    [kind |-> "return", status |-> 0, detail |-> "", headers |-> None,
     value |-> v]

HTTPException(status_code, detail, headers) ==
    [kind |-> "HTTPException", status |-> status_code, detail |-> detail,
     headers |-> headers, value |-> None]

KeyError(key) ==
    [kind |-> "KeyError", status |-> 0, detail |-> key, headers |-> None,
     value |-> None]

----------------------------------------------------------------------------
(* src.repository.users *)

get_user_by_email(email) ==
    IF email.val \in users THEN User(email.val) ELSE None

----------------------------------------------------------------------------
(* Token issue.  The clock has a resolution of one second and a create_*  *)
(* call completes within one tick of it, so that both of its readings of  *)
(* utcnow() return now.                                                    *)

access_claims(data, expires_delta) ==
    LET expire == IF Truthy(expires_delta)
                  THEN now + expires_delta.seconds
                  ELSE now + AccessDefault
    IN  dict_update(data, [iat |-> now, exp |-> expire,
                           scope |-> "access_token"])

refresh_claims(data, expires_delta) ==
    LET expire == IF Truthy(expires_delta)
                  THEN now + expires_delta.seconds
                  ELSE now + RefreshDefault
    IN  dict_update(data, [iat |-> now, exp |-> expire,
                           scope |-> "refresh_token"])

email_claims(data) ==
    LET expire == now + EmailDefault
    IN  dict_update(data, [iat |-> now, exp |-> expire])

\* a token in circulation: the string, and the call that produced it
Issued(by, data, expires_delta, claims, key) ==
    [jwt |-> jwt_encode(claims, key), by |-> by, data |-> data,
     expires_delta |-> expires_delta]

NoToken == Issued("none", EmptyDict, NoDelta, EmptyDict, OTHER_KEY)

\* a call of an Auth method: the token it is about, the time and the user
\* table it ran with, and how it ended
Call(op, entry, out) ==
    [op |-> op, entry |-> entry, at |-> now, db |-> users, out |-> out]

\* the caller receives entry; a client keeps the refresh token it held for as
\* long as only access tokens are issued after it
Circulate(op, entry) ==
    /\ latest' = entry
    /\ older' = IF op # "create_access_token" THEN NoToken
                ELSE IF latest.by = "create_refresh_token" THEN latest
                ELSE older
    /\ result' = Call(op, entry, Return(entry.jwt))

create_access_token(data, expires_delta) ==
    /\ Circulate("create_access_token",
                 Issued("create_access_token", data, expires_delta,
                        access_claims(data, expires_delta), SECRET_KEY))
    /\ UNCHANGED <<now, users, ticks>>

create_refresh_token(data, expires_delta) ==
    /\ Circulate("create_refresh_token",
                 Issued("create_refresh_token", data, expires_delta,
                        refresh_claims(data, expires_delta), SECRET_KEY))
    /\ UNCHANGED <<now, users, ticks>>

create_email_token(data) ==
    /\ Circulate("create_email_token",
                 Issued("create_email_token", data, NoDelta,
                        email_claims(data), SECRET_KEY))
    /\ UNCHANGED <<now, users, ticks>>

----------------------------------------------------------------------------
(* Token validation: what each validator does with a token string *)

\* get_email_form_refresh_token without its test of the scope
refresh_outcome_unscoped(refresh_token) ==
    LET decoded == jwt_decode(refresh_token, SECRET_KEY)
        payload == decoded.payload
    IN  IF ~decoded.ok
        THEN HTTPException(HTTP_401_UNAUTHORIZED,
                           "Could not validate credentials", None)
        ELSE IF "sub" \notin DOMAIN payload THEN KeyError("sub")
        ELSE Return(payload["sub"])

refresh_outcome(refresh_token) ==
    LET decoded == jwt_decode(refresh_token, SECRET_KEY)
        payload == decoded.payload
    IN  IF ~decoded.ok
        THEN HTTPException(HTTP_401_UNAUTHORIZED,
                           "Could not validate credentials", None)
        ELSE IF "scope" \notin DOMAIN payload THEN KeyError("scope")
        ELSE IF payload["scope"] = "refresh_token"
        THEN IF "sub" \notin DOMAIN payload THEN KeyError("sub")
             ELSE Return(payload["sub"])
        ELSE HTTPException(HTTP_401_UNAUTHORIZED,
                           "Invalid scope for token", None)

credentials_exception ==
    HTTPException(HTTP_401_UNAUTHORIZED, "Could not validate credentials",
                  [h \in {"WWW-Authenticate"} |-> "Bearer"])

\* get_current_user that answers 404 when the subject has no user
current_user_outcome_404(token) ==
    LET decoded == jwt_decode(token, SECRET_KEY)
        payload == decoded.payload
    IN  IF ~decoded.ok THEN credentials_exception
        ELSE IF "scope" \notin DOMAIN payload THEN KeyError("scope")
        ELSE IF payload["scope"] = "access_token"
        THEN IF "sub" \notin DOMAIN payload THEN KeyError("sub")
             ELSE IF payload["sub"] = None THEN credentials_exception
             ELSE LET user == get_user_by_email(payload["sub"])
                  IN  IF user = None
                      THEN HTTPException(404, "User not found", None)
                      ELSE Return(user)
        ELSE credentials_exception

current_user_outcome(token) ==
    LET decoded == jwt_decode(token, SECRET_KEY)
        payload == decoded.payload
    IN  IF ~decoded.ok THEN credentials_exception
        ELSE IF "scope" \notin DOMAIN payload THEN KeyError("scope")
        ELSE IF payload["scope"] = "access_token"
        THEN IF "sub" \notin DOMAIN payload THEN KeyError("sub")
             ELSE IF payload["sub"] = None THEN credentials_exception
             ELSE LET user == get_user_by_email(payload["sub"])
                  IN  IF user = None THEN credentials_exception
                      ELSE Return(user)
        ELSE credentials_exception

\* get_email_from_token that refuses a token carrying a scope
email_outcome_scoped(token) ==
    LET decoded == jwt_decode(token, SECRET_KEY)
        payload == decoded.payload
    IN  IF ~decoded.ok \/ "scope" \in DOMAIN payload
        THEN HTTPException(HTTP_422_UNPROCESSABLE_ENTITY,
                           "Invalid token for email verification", None)
        ELSE IF "sub" \notin DOMAIN payload THEN KeyError("sub")
        ELSE Return(payload["sub"])

email_outcome(token) ==
    LET decoded == jwt_decode(token, SECRET_KEY)
        payload == decoded.payload
    IN  IF ~decoded.ok
        THEN HTTPException(HTTP_422_UNPROCESSABLE_ENTITY,
                           "Invalid token for email verification", None)
        ELSE IF "sub" \notin DOMAIN payload THEN KeyError("sub")
        ELSE Return(payload["sub"])

\* the claims of entry signed again by someone who lacks SECRET_KEY
Forged(entry) ==
    Issued("forged", entry.jwt.payload, NoDelta, entry.jwt.payload, OTHER_KEY)

\* what a validator may be presented with
Presentable ==
    LET genuine == {latest, older} \ {NoToken}
    IN  genuine \cup { Forged(entry) : entry \in genuine }

get_email_form_refresh_token(entry) ==
    /\ result' = Call("get_email_form_refresh_token", entry,
                      refresh_outcome(entry.jwt))
    /\ UNCHANGED <<now, users, latest, older, ticks>>

get_current_user(entry) ==
    /\ result' = Call("get_current_user", entry,
                      current_user_outcome(entry.jwt))
    /\ UNCHANGED <<now, users, latest, older, ticks>>

get_email_from_token(entry) ==
    /\ result' = Call("get_email_from_token", entry,
                      email_outcome(entry.jwt))
    /\ UNCHANGED <<now, users, latest, older, ticks>>

----------------------------------------------------------------------------
(* Environment: the clock and the user table *)

Tick(d) ==
    /\ ticks < MaxTicks
    /\ now' = now + d
    /\ ticks' = ticks + 1
    /\ UNCHANGED <<users, latest, older, result>>

RegisterUser(e) ==
    /\ e \notin users
    /\ users' = users \cup {e}
    /\ UNCHANGED <<now, latest, older, ticks, result>>

----------------------------------------------------------------------------

Init ==
    /\ now = 0
    /\ users = {"a@x.com"}
    /\ latest = NoToken
    /\ older = NoToken
    /\ ticks = 0
    /\ result = Call("none", NoToken, Return(None))

Next ==
    \/ \E args \in AccessArguments : create_access_token(args[1], args[2])
    \/ \E args \in RefreshArguments : create_refresh_token(args[1], args[2])
    \/ \E data \in EmailDatas : create_email_token(data)
    \/ \E entry \in Presentable : get_email_form_refresh_token(entry)
    \/ \E entry \in Presentable : get_current_user(entry)
    \/ \E entry \in Presentable : get_email_from_token(entry)
    \/ \E d \in Jumps : Tick(d)
    \/ \E e \in Emails : RegisterUser(e)

Spec == Init /\ [][Next]_vars

----------------------------------------------------------------------------
(* Vocabulary of the properties *)

Validators ==
    {"get_current_user", "get_email_form_refresh_token",
     "get_email_from_token"}

Outcome(op, jwt) ==
    CASE op = "get_current_user" -> current_user_outcome(jwt)
      [] op = "get_email_form_refresh_token" -> refresh_outcome(jwt)
      [] op = "get_email_from_token" -> email_outcome(jwt)

\* the validator whose kind of token a create_* call issues
Matching(by) ==
    CASE by = "create_access_token" -> "get_current_user"
      [] by = "create_refresh_token" -> "get_email_form_refresh_token"
      [] by = "create_email_token" -> "get_email_from_token"
      [] OTHER -> "none"

Payload(entry) == entry.jwt.payload

Genuine(entry) == entry.jwt.key = SECRET_KEY

HasSubject(entry) ==
    "sub" \in DOMAIN Payload(entry) /\ Payload(entry)["sub"].type = "str"

\* signed with SECRET_KEY, not expired at time t, and no malformed subject
Decodable(entry, t) ==
    /\ Genuine(entry)
    /\ t <= Payload(entry)["exp"]
    /\ "sub" \in DOMAIN Payload(entry) => Payload(entry)["sub"].type = "str"

\* how a validator rejects a token whose signature does not verify, and one
\* that has expired
InvalidTokenOutcomes(op) ==
    LET claims == [sub |-> Str("a@x.com"), scope |-> "access_token",
                   iat |-> now - 2, exp |-> now - 1]
    IN  { Outcome(op, jwt_encode(claims, OTHER_KEY)),
          Outcome(op, jwt_encode(claims, SECRET_KEY)) }

InCirculation == {latest, older} \ {NoToken}

DefaultLifetime(by) ==
    CASE by = "create_access_token" -> 900
      [] by = "create_refresh_token" -> 604800
      [] by = "create_email_token" -> 604800

----------------------------------------------------------------------------
(* C1 as stated: a refresh token given to get_current_user, and an access  *)
(* token given to get_email_form_refresh_token, are each rejected with an  *)
(* outcome that differs from the one for a bad signature or an expiry.     *)
C1_ScopeRejectionDistinct ==
    LET e == result.entry
    IN  /\ ( /\ result.op = "get_current_user"
             /\ e.by = "create_refresh_token"
             /\ Decodable(e, result.at) )
           => /\ result.out.kind = "HTTPException"
              /\ result.out \notin InvalidTokenOutcomes(result.op)
        /\ ( /\ result.op = "get_email_form_refresh_token"
             /\ e.by = "create_access_token"
             /\ Decodable(e, result.at) )
           => /\ result.out.kind = "HTTPException"
              /\ result.out \notin InvalidTokenOutcomes(result.op)

(* C1 amended: get_current_user rejects a refresh token with the very      *)
(* response it gives for an invalid token; get_email_form_refresh_token    *)
(* rejects an access token with 401 "Invalid scope for token", which       *)
(* differs from its response for an invalid token.                         *)
C1_ScopeRejection ==
    LET e == result.entry
    IN  /\ ( /\ result.op = "get_current_user"
             /\ e.by = "create_refresh_token"
             /\ Decodable(e, result.at) )
           => /\ result.out.kind = "HTTPException"
              /\ InvalidTokenOutcomes(result.op) = {result.out}
        /\ ( /\ result.op = "get_email_form_refresh_token"
             /\ e.by = "create_access_token"
             /\ Decodable(e, result.at) )
           => /\ result.out.kind = "HTTPException"
              /\ result.out.status = 401
              /\ result.out.detail = "Invalid scope for token"
              /\ result.out \notin InvalidTokenOutcomes(result.op)

C1_Witness ==
    /\ result.op = "get_current_user"
    /\ result.entry.by = "create_refresh_token"
    /\ Decodable(result.entry, result.at)
    /\ HasSubject(result.entry)
    /\ result.out = credentials_exception

(* C2 as stated: past exp every validator rejects with its invalid-token   *)
(* outcome; with the clock where it was at issue the matching validator    *)
(* accepts; a token with expires_delta=1 is accepted after 0 seconds and   *)
(* rejected after 2.                                                       *)
C2_ExpiryDecides ==
    LET e == result.entry
        p == Payload(e)
    IN  (result.op \in Validators) =>
        /\ (result.at > p["exp"])
              => result.out \in InvalidTokenOutcomes(result.op)
        /\ ( /\ result.op = Matching(e.by)
             /\ e.data = [sub |-> Str("a@x.com")]
             /\ result.at = p["iat"] )
              => result.out.kind = "return"
        /\ ( /\ result.op = Matching(e.by)
             /\ e.data = [sub |-> Str("a@x.com")]
             /\ e.expires_delta = Seconds(1)
             /\ result.at >= p["iat"] + 2 )
              => result.out \in InvalidTokenOutcomes(result.op)

(* C3 as stated: exp = iat + L for every lifetime L the caller passes, the *)
(* default lifetime of the kind when none is passed, sub carried over, and *)
(* scope set by kind (none for email tokens).                              *)
C3_Lifetime ==
    \A e \in InCirculation :
        LET p == Payload(e)
        IN  /\ e.expires_delta.given
                 => p["exp"] = p["iat"] + e.expires_delta.seconds
            /\ ~e.expires_delta.given
                 => p["exp"] - p["iat"] = DefaultLifetime(e.by)
            /\ "sub" \in DOMAIN e.data
                 => "sub" \in DOMAIN p /\ p["sub"] = e.data["sub"]
            /\ e.by = "create_access_token" => p["scope"] = "access_token"
            /\ e.by = "create_refresh_token" => p["scope"] = "refresh_token"
            /\ (e.by = "create_email_token" /\ "scope" \notin DOMAIN e.data)
                 => "scope" \notin DOMAIN p

(* C4 as stated: every issued token has exp strictly greater than iat.     *)
C4_ExpAfterIat ==
    \A e \in InCirculation : Payload(e)["exp"] > Payload(e)["iat"]

(* C5: an access token issued for subject e and given to get_current_user  *)
(* no later than exp yields the user stored for e, when there is one; a    *)
(* refresh token issued for e and given to get_email_form_refresh_token no *)
(* later than exp yields e.                                                *)
C5_RoundTrip ==
    LET e == result.entry
    IN  ( /\ result.op = Matching(e.by)
          /\ result.op # "get_email_from_token"
          /\ "sub" \in DOMAIN e.data
          /\ e.data["sub"].type = "str"
          /\ result.at <= Payload(e)["exp"] )
        => IF result.op = "get_email_form_refresh_token"
           THEN result.out = Return(e.data["sub"])
           ELSE e.data["sub"].val \in result.db
                   => result.out = Return(User(e.data["sub"].val))

C5_Witness ==
    /\ result.op = "get_current_user"
    /\ result.entry.by = "create_access_token"
    /\ result.at = Payload(result.entry)["exp"]
    /\ result.out = Return(User("a@x.com"))

(* C6: when get_current_user is given a valid access token whose subject   *)
(* has no user, its response is the one it gives for a token with a bad    *)
(* signature and for an expired token.                                     *)
C6_NonEnumeration ==
    LET e == result.entry
    IN  ( /\ result.op = "get_current_user"
          /\ Decodable(e, result.at)
          /\ HasSubject(e)
          /\ "scope" \in DOMAIN Payload(e)
          /\ Payload(e)["scope"] = "access_token"
          /\ Payload(e)["sub"].val \notin result.db )
        => InvalidTokenOutcomes(result.op) = {result.out}

C6_Witness ==
    /\ result.op = "get_current_user"
    /\ result.entry.by = "create_access_token"
    /\ Decodable(result.entry, result.at)
    /\ HasSubject(result.entry)
    /\ Payload(result.entry)["sub"].val \notin result.db
    /\ result.out.kind = "HTTPException"

(* C7 as stated: a valid access-scoped token without sub is rejected by    *)
(* get_current_user with the invalid-token response.                       *)
C7_MissingSubject ==
    LET e == result.entry
    IN  ( /\ result.op = "get_current_user"
          /\ Decodable(e, result.at)
          /\ "scope" \in DOMAIN Payload(e)
          /\ Payload(e)["scope"] = "access_token"
          /\ "sub" \notin DOMAIN Payload(e) )
        => InvalidTokenOutcomes(result.op) = {result.out}

C9_NoScopeDenied ==
    LET e == result.entry
    IN  ( /\ result.op \in {"get_current_user",
                            "get_email_form_refresh_token"}
          /\ Decodable(e, result.at)
          /\ "scope" \notin DOMAIN Payload(e) )
        => /\ result.out.kind = "HTTPException"
           /\ result.out.status = 401

(* C10: get_email_from_token returns the sub of every validly signed,      *)
(* unexpired token that carries one, whatever its kind and scope, and it   *)
(* rejects only a token that is forged, expired or has a malformed sub.    *)
C10_NoScopeCheck ==
    LET e == result.entry
    IN  (result.op = "get_email_from_token") =>
        /\ (Decodable(e, result.at) /\ HasSubject(e))
              => result.out = Return(Payload(e)["sub"])
        /\ result.out.kind = "HTTPException" => ~Decodable(e, result.at)

C10_Witness ==
    /\ result.op = "get_email_from_token"
    /\ result.entry.by = "create_refresh_token"
    /\ result.out = Return(Str("a@x.com"))

====
